---- MODULE Spec2Model ----
(***************************************************************************)
(* A model of gutenberg/export.py: the boilerplate stripper and the link   *)
(* rewriter of update_html_for_static, the popularity computation of       *)
(* export_all_books, the EPUB patcher optimize_epub with its truncation   *)
(* of the .ncx entry, and the per-book export loop.                        *)
(* Each part has its own specification over its own                        *)
(* variables; the variables of the other parts stay at their idle values.  *)
(***************************************************************************)
EXTENDS Integers, Sequences, FiniteSets, TLC

VARIABLES
    \* ---- update_html_for_static: the stripper
    epub,        \* the epub argument
    bodyFound,   \* FALSE when soup.find('body') returned None
    body,        \* body.contents: the ordered top-level children
    orig,        \* body.contents as parsed, before the stripper ran
    spc,         \* position in update_html_for_static
    pat,         \* index of the (start_of_text, end_of_text) pair being tried
    it,          \* index held by the list iterator of body.children
    remove       \* the remove flag of the running child loop

stripVars == <<epub, bodyFound, body, orig, spc, pat, it, remove>>

VARIABLES
    \* ---- update_html_for_static: the img and a rewriting
    book_id,     \* book.id
    elem,        \* the img or a element of the document, with its src or href
    snaps,       \* the element as parsed and after each application
    lpc          \* position in the rewriting

linkVars == <<book_id, elem, snaps, lpc>>

VARIABLES
    \* ---- export_all_books: the popularity computation
    popbooks,      \* the downloads of books.order_by(Book.downloads.desc())
    stars_limits,  \* stars_limits[i + 1] is the code's stars_limits[i]
    stars,
    nb_downloads,
    ibook,         \* the loop index over range(popbooks.count())
    popularity,    \* book.popularity of the books rated so far, in popbooks order
    ppc            \* position in the computation

popVars == <<popbooks, stars_limits, stars, nb_downloads, ibook, popularity, ppc>>

VARIABLES
    \* ---- optimize_epub
    src_names,     \* zf.namelist() of the source archive
    zipped_files,  \* the zipped_files list
    files,         \* the names of the files present under tmpd
    tmpd,          \* TRUE while the temporary directory exists
    zit,           \* index held by the list iterator of zipped_files
    remove_cover,
    optimized,     \* the names handed to optimize_image
    patched,       \* the names overwritten with patched content
    dst,           \* the entries of the archive at dst, in order
    epc            \* position in optimize_epub

epubVars == <<src_names, zipped_files, files, tmpd, zit, remove_cover,
              optimized, patched, dst, epc>>

VARIABLES
    \* ---- export_all_books and export_book_to: one export run
    nbooks,        \* the size of the filtered book collection
    bi,            \* the number of the book being exported
    book,          \* what the download cache holds for that book
    ci,            \* the number of companion files handled for it
    last,          \* the last HTML file handled and what was written for it
    rpc            \* position in the run

runVars == <<nbooks, bi, book, ci, last, rpc>>

VARIABLES
    \* ---- optimize_epub: the truncation of the .ncx entry
    navMap,        \* navMap.contents: the navPoints, in document order
    label,         \* label[i]: the navLabel text of navPoint i holds the pattern
    next_sibling,  \* next_sibling[i] of navPoint i, 0 for None
    decomposed,    \* the navPoints destroyed by decompose()
    tags,          \* soup.findAll('text'): the navPoint of each tag found
    ntag,          \* index held by the iterator of that list
    npc            \* position in the truncation

ncxVars == <<navMap, label, next_sibling, decomposed, tags, ntag, npc>>

vars == <<stripVars, linkVars, popVars, epubVars, runVars, ncxVars>>

StripIdle ==
    /\ epub = FALSE
    /\ bodyFound = FALSE
    /\ body = << >>
    /\ orig = << >>
    /\ spc = "idle"
    /\ pat = 1
    /\ it = 0
    /\ remove = FALSE

LinkIdle ==
    /\ book_id = 0
    /\ elem = [name |-> "none", has |-> FALSE, val |-> << >>]
    /\ snaps = << >>
    /\ lpc = "idle"

PopIdle ==
    /\ popbooks = << >>
    /\ stars_limits = << >>
    /\ stars = 0
    /\ nb_downloads = 0
    /\ ibook = 0
    /\ popularity = << >>
    /\ ppc = "idle"

EpubIdle ==
    /\ src_names = << >>
    /\ zipped_files = << >>
    /\ files = {}
    /\ tmpd = FALSE
    /\ zit = 0
    /\ remove_cover = FALSE
    /\ optimized = {}
    /\ patched = {}
    /\ dst = << >>
    /\ epc = "idle"

NoBook == [html |-> FALSE, companions |-> << >>]
NoFile == [file |-> "none", update |-> "none", wrote |-> "none"]

RunIdle ==
    /\ nbooks = 0
    /\ bi = 0
    /\ book = NoBook
    /\ ci = 0
    /\ last = NoFile
    /\ rpc = "idle"

NcxIdle ==
    /\ navMap = << >>
    /\ label = << >>
    /\ next_sibling = << >>
    /\ decomposed = {}
    /\ tags = << >>
    /\ ntag = 0
    /\ npc = "idle"

StripOnly == UNCHANGED <<linkVars, popVars, epubVars, runVars, ncxVars>>
LinkOnly == UNCHANGED <<stripVars, popVars, epubVars, runVars, ncxVars>>
PopOnly == UNCHANGED <<stripVars, linkVars, epubVars, runVars, ncxVars>>
EpubOnly == UNCHANGED <<stripVars, linkVars, popVars, runVars, ncxVars>>
RunOnly == UNCHANGED <<stripVars, linkVars, popVars, epubVars, ncxVars>>
NcxOnly == UNCHANGED <<stripVars, linkVars, popVars, epubVars, runVars>>

(***************************************************************************)
(* Bounds of the model.                                                    *)
(***************************************************************************)
MaxChildren == 4     \* top-level children of a body

(***************************************************************************)
(* Text.  A text is a sequence of fragments; a marker is a text; "in" is   *)
(* substring search.  The fragments are cut so that the markers of the     *)
(* table that contain one another in the source still do.                  *)
(***************************************************************************)
PGE == "Project Gutenberg Etext"
StartThePG == "***START OF THE PROJECT GUTENBERG"
Dash17 == "-x17-"
Eq59 == "=x59"

\* needle in haystack (Python's str.__contains__)
In(needle, haystack) ==
    \E i \in 0..(Len(haystack) - Len(needle)) :
        SubSeq(haystack, i + 1, i + Len(needle)) = needle

\* the patterns table of update_html_for_static, in its order
patterns == <<
    << <<"*** START OF THE PROJECT GUTENBERG EBOOK">>,
       <<"*** END OF THE PROJECT GUTENBERG EBOOK">> >>,
    << <<StartThePG, " EBOOK">>,
       <<"***END OF THE PROJECT GUTENBERG EBOOK">> >>,
    << <<"<><>x34">>,
       <<"<><>x34">> >>,
    << <<"*** START OF THIS PROJECT GUTENBERG EBOOK">>,
       <<"*** START: FULL LICENSE ***">> >>,
    << <<"*END THE SMALL PRINT! FOR PUBLIC DOMAIN ETEXT">>,
       <<"-x9", Dash17>> >>,
    << <<"*** START OF THIS PROJECT GUTENBERG EBOOK">>,
       <<"*** END OF THIS PROJECT GUTENBERG EBOOK">> >>,
    << <<StartThePG>>,
       <<"***END OF THE PROJECT GUTENBERG EBOOK">> >>,
    << <<"COPYRIGHT PROTECTED ETEXTS*END*">>,
       <<Eq59>> >>,
    << <<"Nous remercions la Bibliotheque Nationale de France qui a mis a">>,
       <<"The ", PGE, " of">> >>,
    << <<"Nous remercions la Bibliotheque Nationale de France qui a mis a">>,
       <<"End of The Project Gutenberg EBook">> >>,
    << <<"=x14", Eq59>>,
       <<"-x9", Dash17>> >>,
    << <<PGE>>,
       <<"End of ", PGE>> >>,
    << <<"Text encoding is iso-8859-1">>,
       <<"Fin de ", PGE>> >>,
    << <<Dash17>>,
       <<"Encode an ISO 8859/1 Etext into LaTeX or HTML">> >>
>>

start_of_text(p) == patterns[p][1]
end_of_text(p) == patterns[p][2]

(***************************************************************************)
(* The parsed body.  A child is a Tag (tag = TRUE) or a NavigableString;   *)
(* text is child.text, the concatenated strings of the child's subtree;    *)
(* id is the child's position in the parsed document.                      *)
(***************************************************************************)
TagTexts == { <<"w">>,
              start_of_text(1), end_of_text(1),
              start_of_text(12), end_of_text(12),
              start_of_text(3) }
StrTexts == { <<"w">>, start_of_text(1) }

ChildKinds == [tag : {TRUE}, text : TagTexts] \cup [tag : {FALSE}, text : StrTexts]

\* body.contents of a parsed document whose children are of the kinds k
Parsed(k) == [i \in 1..Len(k) |-> [id |-> i, tag |-> k[i].tag, text |-> k[i].text]]

RECURSIVE TextOf(_)
\* body.text: the strings of all children, concatenated
TextOf(b) == IF b = << >> THEN << >> ELSE Head(b).text \o TextOf(Tail(b))

\* the contents list after child number i (1-based) was decomposed
Decompose(b, i) == SubSeq(b, 1, i - 1) \o SubSeq(b, i + 1, Len(b))

\* a variant that counts every child, NavigableStrings too
is_encapsulated_counts_strings ==
    /\ bodyFound
    /\ Len(body) = 1

\* is_encapsulated_in_div: body is found and has exactly one child that is
\* not a NavigableString
is_encapsulated_in_div ==
    /\ bodyFound
    /\ Cardinality({i \in 1..Len(body) : body[i].tag}) = 1

InfoBox == [id |-> 0, tag |-> TRUE, text |-> <<"infobox">>]

StripInit ==
    /\ epub \in BOOLEAN
    /\ bodyFound \in BOOLEAN
    /\ IF bodyFound
       THEN \E n \in 0..MaxChildren : \E k \in [1..n -> ChildKinds] : body = Parsed(k)
       ELSE body = << >>
    /\ orig = body
    /\ spc = "find_body"
    /\ pat = 1
    /\ it = 0
    /\ remove = FALSE
    /\ LinkIdle
    /\ PopIdle
    /\ EpubIdle
    /\ RunIdle
    /\ NcxIdle

\* body = soup.find('body') ... if not is_encapsulated_in_div: for ... in patterns
FindBody ==
    /\ spc = "find_body"
    /\ spc' = IF is_encapsulated_in_div THEN "infobox" ELSE "patterns"
    /\ pat' = 1
    /\ UNCHANGED <<epub, bodyFound, body, orig, it, remove>>
    /\ StripOnly

\* body.text is evaluated on None
PatternRaises ==
    /\ spc = "patterns"
    /\ pat <= Len(patterns)
    /\ ~bodyFound
    /\ spc' = "raised"
    /\ UNCHANGED <<epub, bodyFound, body, orig, pat, it, remove>>
    /\ StripOnly

\* neither marker of the pair is in body.text: continue
PatternContinue ==
    /\ spc = "patterns"
    /\ pat <= Len(patterns)
    /\ bodyFound
    /\ ~In(start_of_text(pat), TextOf(body))
    /\ ~In(end_of_text(pat), TextOf(body))
    /\ pat' = pat + 1
    /\ UNCHANGED <<epub, bodyFound, body, orig, spc, it, remove>>
    /\ StripOnly

\* the table is exhausted without a break
PatternsExhausted ==
    /\ spc = "patterns"
    /\ pat > Len(patterns)
    /\ spc' = "infobox"
    /\ UNCHANGED <<epub, bodyFound, body, orig, pat, it, remove>>
    /\ StripOnly

\* both markers are in body.text: remove = True, iterate body.children
EnterBoth ==
    /\ spc = "patterns"
    /\ pat <= Len(patterns)
    /\ bodyFound
    /\ In(start_of_text(pat), TextOf(body))
    /\ In(end_of_text(pat), TextOf(body))
    /\ spc' = "both"
    /\ remove' = TRUE
    /\ it' = 0
    /\ UNCHANGED <<epub, bodyFound, body, orig, pat>>
    /\ StripOnly

\* only the start marker is in body.text
EnterStart ==
    /\ spc = "patterns"
    /\ pat <= Len(patterns)
    /\ bodyFound
    /\ In(start_of_text(pat), TextOf(body))
    /\ ~In(end_of_text(pat), TextOf(body))
    /\ spc' = "start"
    /\ remove' = TRUE
    /\ it' = 0
    /\ UNCHANGED <<epub, bodyFound, body, orig, pat>>
    /\ StripOnly

\* only the end marker is in body.text
EnterEnd ==
    /\ spc = "patterns"
    /\ pat <= Len(patterns)
    /\ bodyFound
    /\ ~In(start_of_text(pat), TextOf(body))
    /\ In(end_of_text(pat), TextOf(body))
    /\ spc' = "end"
    /\ remove' = FALSE
    /\ it' = 0
    /\ UNCHANGED <<epub, bodyFound, body, orig, pat>>
    /\ StripOnly

\* the child the list iterator of body.contents yields next
Child == body[it + 1]
HasStart(child) == In(start_of_text(pat), child.text)
HasEnd(child) == In(end_of_text(pat), child.text)

\* One pass of a child loop: the iterator yields contents[it] and advances,
\* whatever the loop body deletes.  flag is the remove flag after the marker
\* tests of the pass, gone whether the child was decomposed in it.
ChildStep(at, flag, gone) ==
    /\ spc = at
    /\ it < Len(body)
    /\ IF ~Child.tag
       THEN UNCHANGED <<body, remove>>          \* NavigableString: continue
       ELSE /\ remove' = flag
            /\ body' = IF gone THEN Decompose(body, it + 1) ELSE body
    /\ it' = it + 1
    /\ UNCHANGED <<epub, bodyFound, orig, spc, pat>>
    /\ StripOnly

\* a variant without the break: the next pair of the table is tried
ChildLoopEnd_without_break(at) ==
    /\ spc = at
    /\ it >= Len(body)
    /\ spc' = "patterns"
    /\ pat' = pat + 1
    /\ UNCHANGED <<epub, bodyFound, body, orig, it, remove>>
    /\ StripOnly

\* the iterator is exhausted: break out of the patterns loop
ChildLoopEnd(at) ==
    /\ spc = at
    /\ it >= Len(body)
    /\ spc' = "infobox"
    /\ UNCHANGED <<epub, bodyFound, body, orig, pat, it, remove>>
    /\ StripOnly

\* the child loop of the branch "start and end in body.text"
BothFlag(child, r) == IF HasStart(child) THEN FALSE ELSE (r \/ HasEnd(child))
BothGone(child, r) == HasStart(child) \/ r \/ HasEnd(child)
BothStep == ChildStep("both", BothFlag(Child, remove), BothGone(Child, remove))
BothEnd == ChildLoopEnd("both")

\* the child loop of the branch "start in body.text"
StartFlag(child, r) == IF HasStart(child) THEN FALSE ELSE r
StartGone(child, r) == HasStart(child) \/ r
StartStep == ChildStep("start", StartFlag(Child, remove), StartGone(Child, remove))
StartEnd == ChildLoopEnd("start")

\* the child loop of the branch "end in body.text"
EndFlag(child, r) == r \/ HasEnd(child)
EndGone(child, r) == r \/ HasEnd(child)
EndStep == ChildStep("end", EndFlag(Child, remove), EndGone(Child, remove))
EndEnd == ChildLoopEnd("end")

\* build infobox: body.insert(0, ...) unless epub (a missing body has raised
\* in the patterns loop before)
BuildInfobox ==
    /\ spc = "infobox"
    /\ body' = IF epub THEN body ELSE <<InfoBox>> \o body
    /\ spc' = "done"
    /\ UNCHANGED <<epub, bodyFound, orig, pat, it, remove>>
    /\ StripOnly

StripNext ==
    \/ FindBody
    \/ PatternRaises
    \/ PatternContinue
    \/ PatternsExhausted
    \/ EnterBoth
    \/ EnterStart
    \/ EnterEnd
    \/ BothStep
    \/ BothEnd
    \/ StartStep
    \/ StartEnd
    \/ EndStep
    \/ EndEnd
    \/ BuildInfobox

SpecStrip == StripInit /\ [][StripNext]_vars

(***************************************************************************)
(* The img and a rewriting of update_html_for_static (epub = False).       *)
(* An href is a sequence of characters, a src a sequence of fragments in   *)
(* which "images" and "/" are separate, so that 'images/' is two of them.  *)
(***************************************************************************)
MaxUrlLen == 4       \* characters of an href, fragments of a src
MaxApply == 2        \* applications of the rewriting to one document

BookIds == {7, 42}
HrefChars == {"c", "/", "#", " "}
SrcFrags == {"images", "/", "c"}

\* '{id}_'.format(id=book.id)
IdPrefix(id) == <<ToString(id), "_">>

Has(c, s) == \E i \in 1..Len(s) : s[i] = c

\* the index of the last c in s, 0 when there is none
LastIndexOf(c, s) ==
    IF Has(c, s) THEN CHOOSE i \in 1..Len(s) :
                          /\ s[i] = c
                          /\ \A j \in (i + 1)..Len(s) : s[j] # c
    ELSE 0

RECURSIVE LStrip(_)
LStrip(s) == IF s # << >> /\ Head(s) = " " THEN LStrip(Tail(s)) ELSE s
RECURSIVE RStrip(_)
RStrip(s) == IF s # << >> /\ s[Len(s)] = " "
             THEN RStrip(SubSeq(s, 1, Len(s) - 1)) ELSE s
\* str.strip()
Strip(s) == RStrip(LStrip(s))

RECURSIVE ReplaceImages(_, _)
\* src.replace('images/', prefix): every occurrence, left to right
ReplaceImages(s, prefix) ==
    IF Len(s) >= 2 /\ s[1] = "images" /\ s[2] = "/"
    THEN prefix \o ReplaceImages(SubSeq(s, 3, Len(s)), prefix)
    ELSE IF s = << >> THEN << >>
    ELSE <<Head(s)>> \o ReplaceImages(Tail(s), prefix)

\* url.rsplit('#', 1) unpacked into (urlp, anchor); anchor = None on ValueError
UrlP(url) == IF Has("#", url) THEN SubSeq(url, 1, LastIndexOf("#", url) - 1) ELSE url
HasAnchor(url) == Has("#", url)
Anchor(url) == SubSeq(url, LastIndexOf("#", url) + 1, Len(url))

\* a variant without the test of urlp.strip(): the prefix is always put
replacablement_link_always_prefixes(id, url) ==
    IF Has("/", UrlP(url)) THEN [none |-> TRUE, val |-> << >>]
    ELSE IF HasAnchor(url)
         THEN [none |-> FALSE, val |-> IdPrefix(id) \o UrlP(url) \o <<"#">> \o Anchor(url)]
         ELSE [none |-> FALSE, val |-> IdPrefix(id) \o UrlP(url)]

\* replacablement_link(book, url): [none |-> TRUE] stands for None
replacablement_link(id, url) ==
    LET urlp == UrlP(url)
        nurl == IF Len(Strip(urlp)) # 0 THEN IdPrefix(id) \o urlp ELSE << >>
    IN  IF Has("/", urlp) THEN [none |-> TRUE, val |-> << >>]
        ELSE IF HasAnchor(url)
             THEN [none |-> FALSE, val |-> nurl \o <<"#">> \o Anchor(url)]
             ELSE [none |-> FALSE, val |-> nurl]

\* a variant that replaces the first 'images/' only
rewrite_src_first_only(id, src) ==
    IF \E i \in 1..(Len(src) - 1) : src[i] = "images" /\ src[i + 1] = "/"
    THEN LET i == CHOOSE i \in 1..(Len(src) - 1) :
                      /\ src[i] = "images" /\ src[i + 1] = "/"
                      /\ \A j \in 1..(i - 1) : ~(src[j] = "images" /\ src[j + 1] = "/")
         IN  SubSeq(src, 1, i - 1) \o IdPrefix(id) \o SubSeq(src, i + 2, Len(src))
    ELSE src

\* the new img.attrs['src']
rewrite_src(id, src) == ReplaceImages(src, IdPrefix(id))

\* the alphabet of the attribute an element carries
AttrChars(name) == IF name = "a" THEN HrefChars ELSE SrcFrags

LinkInit ==
    /\ book_id \in BookIds
    /\ \E name \in {"a", "img"} :
        \/ elem = [name |-> name, has |-> FALSE, val |-> << >>]
        \/ \E n \in 0..MaxUrlLen : \E val \in [1..n -> AttrChars(name)] :
               elem = [name |-> name, has |-> TRUE, val |-> val]
    /\ snaps = <<elem>>
    /\ lpc = "img"
    /\ StripIdle
    /\ PopIdle
    /\ EpubIdle
    /\ RunIdle
    /\ NcxIdle

\* for img in soup.findAll('img'): if 'src' in img.attrs: ...
RewriteImgs ==
    /\ lpc = "img"
    /\ elem' = IF elem.name = "img" /\ elem.has
               THEN [elem EXCEPT !.val = rewrite_src(book_id, elem.val)]
               ELSE elem
    /\ lpc' = "a"
    /\ UNCHANGED <<book_id, snaps>>
    /\ LinkOnly

\* for link in soup.findAll('a'): ... link.attrs.get('href', '') ...
RewriteLinks ==
    /\ lpc = "a"
    /\ LET new_link == replacablement_link(book_id, IF elem.has THEN elem.val ELSE << >>)
           after == IF elem.name = "a" /\ ~new_link.none
                    THEN [elem EXCEPT !.has = TRUE, !.val = new_link.val]
                    ELSE elem
       IN  /\ elem' = after
           /\ snaps' = Append(snaps, after)
    /\ lpc' = "applied"
    /\ UNCHANGED <<book_id>>
    /\ LinkOnly

\* the rewritten document is given to update_html_for_static again
Reapply ==
    /\ lpc = "applied"
    /\ Len(snaps) <= MaxApply
    /\ lpc' = "img"
    /\ UNCHANGED <<book_id, elem, snaps>>
    /\ LinkOnly

LinkNext ==
    \/ RewriteImgs
    \/ RewriteLinks
    \/ Reapply

SpecLink == LinkInit /\ [][LinkNext]_vars

(***************************************************************************)
(* The popularity computation of export_all_books.                         *)
(***************************************************************************)
MaxBooks == 7        \* books of the filtered collection
MaxDownloads == 5    \* the largest download count

NB_POPULARITY_STARS == 5

\* order_by(Book.downloads.desc())
Descending(q) == \A i \in 1..(Len(q) - 1) : q[i] >= q[i + 1]

\* a variant that leaves the bands out: every decrease costs a star
PastBand_at_every_decrease(i, st, count) == i > 0

\* ibook > float(NB_POPULARITY_STARS-stars+1)/NB_POPULARITY_STARS*popbooks.count()
PastBand(i, st, count) ==
    NB_POPULARITY_STARS * i > (NB_POPULARITY_STARS - st + 1) * count

\* a variant with the comparison turned round
rating_limits_above(downloads, limits) ==
    Cardinality({i \in 1..NB_POPULARITY_STARS : limits[i] >= downloads})

\* sum([int(book.downloads >= stars_limits[i]) for i in range(NB_POPULARITY_STARS)])
rating(downloads, limits) ==
    Cardinality({i \in 1..NB_POPULARITY_STARS : downloads >= limits[i]})

PopInit ==
    /\ \E n \in 0..MaxBooks : \E q \in [1..n -> 0..MaxDownloads] :
        Descending(q) /\ popbooks = q
    /\ stars_limits = << >>
    /\ stars = 0
    /\ nb_downloads = 0
    /\ ibook = 0
    /\ popularity = << >>
    /\ ppc = "compute"
    /\ StripIdle
    /\ LinkIdle
    /\ EpubIdle
    /\ RunIdle
    /\ NcxIdle

\* stars_limits = [0] * NB_POPULARITY_STARS ... nb_downloads = popbooks[0].downloads
PopStart ==
    /\ ppc = "compute"
    /\ Len(popbooks) > 0
    /\ stars_limits' = [i \in 1..NB_POPULARITY_STARS |-> 0]
    /\ stars' = NB_POPULARITY_STARS
    /\ nb_downloads' = popbooks[1]
    /\ ibook' = 0
    /\ ppc' = "walk"
    /\ UNCHANGED <<popbooks, popularity>>
    /\ PopOnly

\* popbooks[0] of an empty collection raises IndexError
PopStartRaises ==
    /\ ppc = "compute"
    /\ Len(popbooks) = 0
    /\ ppc' = "raised"
    /\ UNCHANGED <<popbooks, stars_limits, stars, nb_downloads, ibook, popularity>>
    /\ PopOnly

\* one pass of: for ibook in range(0, popbooks.count(), 1)
PopStep ==
    /\ ppc = "walk"
    /\ ibook < Len(popbooks)
    /\ IF PastBand(ibook, stars, Len(popbooks)) /\ popbooks[ibook + 1] < nb_downloads
       THEN /\ stars_limits' = [stars_limits EXCEPT ![stars] = nb_downloads]
            /\ stars' = stars - 1
       ELSE UNCHANGED <<stars_limits, stars>>
    /\ nb_downloads' = popbooks[ibook + 1]
    /\ ibook' = ibook + 1
    /\ UNCHANGED <<popbooks, popularity, ppc>>
    /\ PopOnly

\* the range is exhausted
PopWalkEnd ==
    /\ ppc = "walk"
    /\ ibook >= Len(popbooks)
    /\ ppc' = "rate"
    /\ UNCHANGED <<popbooks, stars_limits, stars, nb_downloads, ibook, popularity>>
    /\ PopOnly

\* book.popularity = sum(...), for the next book
RateBook ==
    /\ ppc = "rate"
    /\ Len(popularity) < Len(popbooks)
    /\ popularity' = Append(popularity,
                            rating(popbooks[Len(popularity) + 1], stars_limits))
    /\ UNCHANGED <<popbooks, stars_limits, stars, nb_downloads, ibook, ppc>>
    /\ PopOnly

\* every book is rated
RateEnd ==
    /\ ppc = "rate"
    /\ Len(popularity) = Len(popbooks)
    /\ ppc' = "done"
    /\ UNCHANGED <<popbooks, stars_limits, stars, nb_downloads, ibook, popularity>>
    /\ PopOnly

PopNext ==
    \/ PopStart
    \/ PopStartRaises
    \/ PopStep
    \/ PopWalkEnd
    \/ RateBook
    \/ RateEnd

SpecPop == PopInit /\ [][PopNext]_vars

\* C3: along the descending order the ratings never increase, and books with
\* equal download counts have equal ratings.
C3_RatingsNonIncreasing ==
    \A i \in 1..Len(popularity) : \A j \in i..Len(popularity) :
        /\ popularity[i] >= popularity[j]
        /\ popbooks[i] = popbooks[j] => popularity[i] = popularity[j]

\* seven books, counts 3,3,2,1,1,1,0: the run of 1s lies across the boundary
\* of the third band (position 4 is not past 4.2, position 5 is) and stays
\* whole at 3 stars
C3_Witness ==
    /\ ppc = "done"
    /\ popbooks = <<3, 3, 2, 1, 1, 1, 0>>
    /\ popularity = <<5, 5, 4, 3, 3, 3, 2>>


(***************************************************************************)
(* optimize_epub, for the book with id 42.  An archive is its name list;   *)
(* the tests the code makes on a name are tabulated for the names used.    *)
(***************************************************************************)
MaxEntries == 4      \* entries of the source archive

EntryNames == {"mimetype", "42/content.opf", "42/toc.ncx", "42/cover.jpg",
               "42/backcover.jpg", "42/fig.png", "42/p1.html", "42/p2.htm"}

\* path(fname).ext
Ext(fname) ==
    CASE fname \in {"42/cover.jpg", "42/backcover.jpg"} -> ".jpg"
      [] fname = "42/fig.png" -> ".png"
      [] fname = "42/p1.html" -> ".html"
      [] fname = "42/p2.htm" -> ".htm"
      [] fname = "42/toc.ncx" -> ".ncx"
      [] fname = "42/content.opf" -> ".opf"
      [] OTHER -> ""

\* fname.endswith('cover.jpg')
EndsWithCoverJpg(fname) == fname \in {"42/cover.jpg", "42/backcover.jpg"}

IsImage(fname) == Ext(fname) \in {".png", ".jpeg", ".jpg", ".gif"}
IsHtml(fname) == Ext(fname) \in {".htm", ".html"}
IsNcx(fname) == Ext(fname) = ".ncx"

\* the name list of an archive holds no name twice
NoNameTwice(q) == \A i \in 1..Len(q) : \A j \in 1..Len(q) : q[i] = q[j] => i = j

Names(q) == {q[i] : i \in 1..Len(q)}

\* list.remove(x): the first x leaves the list
ListRemove(q, x) ==
    LET i == CHOOSE i \in 1..Len(q) : q[i] = x /\ \A j \in 1..(i - 1) : q[j] # x
    IN  SubSeq(q, 1, i - 1) \o SubSeq(q, i + 1, Len(q))

RECURSIVE Zip(_, _, _, _)
\* zip run in tmpd on the archive with the names args: a name with no file is
\* passed over, an entry already in the archive is replaced where it is, a
\* new entry is added at the end
Zip(archive, args, method, present) ==
    IF args = << >> THEN archive
    ELSE LET f == Head(args)
             next == IF f \notin present THEN archive
                     ELSE IF \E i \in 1..Len(archive) : archive[i].name = f
                     THEN [i \in 1..Len(archive) |->
                              IF archive[i].name = f
                              THEN [name |-> f, method |-> method]
                              ELSE archive[i]]
                     ELSE Append(archive, [name |-> f, method |-> method])
         IN  Zip(next, Tail(args), method, present)

\* a variant that hands every name to the second zip run
ZipArgsAll(q) == q

\* [f for f in zipped_files if not f == 'mimetype']
ZipArgs(q) == SelectSeq(q, LAMBDA f : f # "mimetype")

EpubInit ==
    /\ \E n \in 0..MaxEntries : \E q \in [1..n -> EntryNames] :
        NoNameTwice(q) /\ src_names = q
    /\ zipped_files = << >>
    /\ files = {}
    /\ tmpd = FALSE
    /\ zit = 0
    /\ remove_cover = FALSE
    /\ optimized = {}
    /\ patched = {}
    /\ dst = << >>
    /\ epc = "mkdtemp"
    /\ StripIdle
    /\ LinkIdle
    /\ PopIdle
    /\ RunIdle
    /\ NcxIdle

\* tmpd = tempfile.mkdtemp(dir=TMP_FOLDER)
MkdTemp ==
    /\ epc = "mkdtemp"
    /\ tmpd' = TRUE
    /\ epc' = "extract"
    /\ UNCHANGED <<src_names, zipped_files, files, zit, remove_cover,
                   optimized, patched, dst>>
    /\ EpubOnly

\* zipped_files = zf.namelist(); zf.extractall(tmpd); remove_cover = False
Extract ==
    /\ epc = "extract"
    /\ zipped_files' = src_names
    /\ files' = Names(src_names)
    /\ remove_cover' = FALSE
    /\ zit' = 0
    /\ epc' = "loop"
    /\ UNCHANGED <<src_names, tmpd, optimized, patched, dst>>
    /\ EpubOnly

\* One pass of: for fname in zipped_files.  The list iterator yields
\* zipped_files[zit] and advances, whatever the loop body removes.  bad is
\* the answer of is_bad_cover.
PatchEntry ==
    /\ epc = "loop"
    /\ zit < Len(zipped_files)
    /\ \E bad \in BOOLEAN :
        LET fname == zipped_files[zit + 1] IN
        /\ IF IsImage(fname) /\ EndsWithCoverJpg(fname) /\ bad
           THEN /\ zipped_files' = ListRemove(zipped_files, fname)
                /\ remove_cover' = TRUE
                /\ optimized' = optimized
           ELSE /\ optimized' = IF IsImage(fname) THEN optimized \cup {fname}
                                ELSE optimized
                /\ UNCHANGED <<zipped_files, remove_cover>>
        /\ patched' = IF IsHtml(fname) \/ IsNcx(fname) THEN patched \cup {fname}
                      ELSE patched
    /\ zit' = zit + 1
    /\ UNCHANGED <<src_names, files, tmpd, dst, epc>>
    /\ EpubOnly

\* the iterator is exhausted
PatchEnd ==
    /\ epc = "loop"
    /\ zit >= Len(zipped_files)
    /\ epc' = "cover"
    /\ UNCHANGED <<src_names, zipped_files, files, tmpd, zit, remove_cover,
                   optimized, patched, dst>>
    /\ EpubOnly

\* if remove_cover: unlink {id}/cover.jpg and patch {id}/content.opf if it exists
CoverStep ==
    /\ epc = "cover"
    /\ IF remove_cover
       THEN /\ files' = files \ {"42/cover.jpg"}
            /\ patched' = IF "42/content.opf" \in files
                          THEN patched \cup {"42/content.opf"}
                          ELSE patched
       ELSE UNCHANGED <<files, patched>>
    /\ epc' = "zip_mimetype"
    /\ UNCHANGED <<src_names, zipped_files, tmpd, zit, remove_cover,
                   optimized, dst>>
    /\ EpubOnly

\* exec_cmd('zip -q0X "{dst}" mimetype')
ZipMimetype ==
    /\ epc = "zip_mimetype"
    /\ dst' = Zip(dst, <<"mimetype">>, "stored", files)
    /\ epc' = "zip_files"
    /\ UNCHANGED <<src_names, zipped_files, files, tmpd, zit, remove_cover,
                   optimized, patched>>
    /\ EpubOnly

\* exec_cmd('zip -qXr9D "{dst}" {files}')
ZipFiles ==
    /\ epc = "zip_files"
    /\ dst' = Zip(dst, ZipArgs(zipped_files), "deflated", files)
    /\ epc' = "rmtree"
    /\ UNCHANGED <<src_names, zipped_files, files, tmpd, zit, remove_cover,
                   optimized, patched>>
    /\ EpubOnly

\* path(tmpd).rmtree_p()
RmTree ==
    /\ epc = "rmtree"
    /\ tmpd' = FALSE
    /\ files' = {}
    /\ epc' = "returned"
    /\ UNCHANGED <<src_names, zipped_files, zit, remove_cover,
                   optimized, patched, dst>>
    /\ EpubOnly

\* a statement between mkdtemp and rmtree_p raises (a bad archive, an entry
\* that cannot be read, update_html_for_static raising on an entry, ...):
\* no handler and no finally clause in optimize_epub, the exception leaves it
EpubRaise ==
    /\ \/ epc \in {"extract", "zip_mimetype", "zip_files"}
       \/ /\ epc = "loop"
          /\ zit < Len(zipped_files)
          /\ LET fname == zipped_files[zit + 1]
             IN  IsImage(fname) \/ IsHtml(fname) \/ IsNcx(fname)
       \/ epc = "cover" /\ remove_cover
    /\ epc' = "raised"
    /\ UNCHANGED <<src_names, zipped_files, files, tmpd, zit, remove_cover,
                   optimized, patched, dst>>
    /\ EpubOnly

EpubNext ==
    \/ MkdTemp
    \/ Extract
    \/ PatchEntry
    \/ PatchEnd
    \/ CoverStep
    \/ ZipMimetype
    \/ ZipFiles
    \/ RmTree
    \/ EpubRaise

SpecEpub == EpubInit /\ [][EpubNext]_vars

DstNames == {dst[i].name : i \in 1..Len(dst)}

\* C4: once the archive is repacked, 'mimetype' is its first entry and is
\* stored; the entries after it are the other entries of the source in their
\* source order; an entry of the source that is missing is an image whose
\* name ends in cover.jpg, removed as a bad cover.
C4_MimetypeFirstOrderKept ==
    (epc \in {"rmtree", "returned"} /\ "mimetype" \in Names(src_names))
    => /\ dst[1] = [name |-> "mimetype", method |-> "stored"]
       /\ [i \in 1..(Len(dst) - 1) |-> dst[i + 1].name]
              = SelectSeq(src_names, LAMBDA f : f # "mimetype" /\ f \in DstNames)
       /\ \A f \in Names(src_names) \ DstNames :
              remove_cover /\ IsImage(f) /\ EndsWithCoverJpg(f)

\* an archive whose mimetype is not its first entry and whose cover was
\* removed has been repacked
C4_Witness ==
    /\ epc = "returned"
    /\ Len(src_names) >= 4
    /\ src_names[1] # "mimetype"
    /\ "mimetype" \in Names(src_names)
    /\ remove_cover
    /\ Len(dst) = Len(src_names) - 1

\* C5, as claimed: when optimize_epub is left, by return or by an exception,
\* the temporary directory is gone.
C5_TmpdRemovedOnExit ==
    epc \in {"returned", "raised"} => ~tmpd

\* C9, as claimed: when the patch loop ends, every html entry of the archive
\* has been patched and every image entry has been optimised or removed as a
\* bad cover.
C9_EveryEntryPatched ==
    epc = "cover"
    => \A f \in Names(src_names) :
           /\ IsHtml(f) => f \in patched
           /\ IsImage(f) => (f \in optimized \/ f \notin Names(zipped_files))


(***************************************************************************)
(* The truncation of the .ncx entry in optimize_epub.  The navMap holds    *)
(* navPoints, each with one navLabel and its text; for a text tag found,   *)
(* tag.parent.parent is its navPoint, named here by its position in the    *)
(* parsed document.  Sibling links are kept as bs4 keeps them: extract()   *)
(* takes the element out of its parent's contents, links its neighbours    *)
(* to each other and sets its own next_sibling to None.                    *)
(***************************************************************************)
MaxNavPoints == 4    \* navPoints of the navMap

\* extract(): del self.parent.contents[self.parent.index(self)]
ExtractContents(m, s) ==
    IF \E i \in 1..Len(m) : m[i] = s
    THEN Decompose(m, CHOOSE i \in 1..Len(m) : m[i] = s)
    ELSE m

\* extract(): previous_sibling.next_sibling = self.next_sibling, then
\* self.previous_sibling = self.next_sibling = None
ExtractLinks(ns, s) ==
    [i \in DOMAIN ns |-> IF i = s THEN 0 ELSE IF ns[i] = s THEN ns[s] ELSE ns[i]]

RECURSIVE DecomposeSiblings(_, _, _, _)
\* for s in s.next_siblings: s.decompose() -- the generator reads
\* i.next_sibling of the element it yielded last, after the loop body ran
DecomposeSiblings(m, ns, d, i) ==
    IF i = 0
    THEN [navMap |-> m, next_sibling |-> ns, decomposed |-> d]
    ELSE LET ns2 == ExtractLinks(ns, i)
         IN  DecomposeSiblings(ExtractContents(m, i), ns2, d \cup {i}, ns2[i])

\* s = tag.parent.parent; s.decompose(); for s in s.next_siblings: ...
TruncateAt(s) ==
    LET ns1 == ExtractLinks(next_sibling, s)
    IN  DecomposeSiblings(ExtractContents(navMap, s), ns1,
                          decomposed \cup {s}, ns1[s])

NcxInit ==
    /\ \E n \in 0..MaxNavPoints : \E l \in [1..n -> BOOLEAN] :
        /\ label = l
        /\ navMap = [i \in 1..n |-> i]
        /\ next_sibling = [i \in 1..n |-> IF i < n THEN i + 1 ELSE 0]
    /\ decomposed = {}
    /\ tags = << >>
    /\ ntag = 0
    /\ npc = "parsed"
    /\ StripIdle
    /\ LinkIdle
    /\ PopIdle
    /\ EpubIdle
    /\ RunIdle

\* soup.findAll('text'): the list of the text tags, in document order
FindAllText ==
    /\ npc = "parsed"
    /\ tags' = navMap
    /\ ntag' = 0
    /\ npc' = "tags"
    /\ UNCHANGED <<navMap, label, next_sibling, decomposed>>
    /\ NcxOnly

\* one pass of for tag in soup.findAll('text'); the text of a destroyed
\* tag is empty
TagStep ==
    /\ npc = "tags"
    /\ ntag < Len(tags)
    /\ LET tag == tags[ntag + 1]
           after == TruncateAt(tag)
       IN  IF label[tag] /\ tag \notin decomposed
           THEN /\ navMap' = after.navMap
                /\ next_sibling' = after.next_sibling
                /\ decomposed' = after.decomposed
           ELSE UNCHANGED <<navMap, next_sibling, decomposed>>
    /\ ntag' = ntag + 1
    /\ UNCHANGED <<label, tags, npc>>
    /\ NcxOnly

\* the list is exhausted: f.write(soup.encode())
WriteNcx ==
    /\ npc = "tags"
    /\ ntag >= Len(tags)
    /\ npc' = "written"
    /\ UNCHANGED <<navMap, label, next_sibling, decomposed, tags, ntag>>
    /\ NcxOnly

NcxNext ==
    \/ FindAllText
    \/ TagStep
    \/ WriteNcx

SpecNcx == NcxInit /\ [][NcxNext]_vars

(***************************************************************************)
(* One export run: export_all_books and, for each book, export_book_to.    *)
(* A book is what the download cache holds for it: whether {id}.html is    *)
(* there, and its {id}_* companion files, HTML or other, in listing order. *)
(***************************************************************************)
MaxRunBooks == 2     \* books of the filtered collection
MaxCompanions == 2   \* companion files of a book

BookShapes ==
    [html : BOOLEAN,
     companions : UNION { [1..n -> {"html", "other"}] : n \in 0..MaxCompanions }]

RunInit ==
    /\ nbooks \in 0..MaxRunBooks
    /\ bi = 0
    /\ book = NoBook
    /\ ci = 0
    /\ last = NoFile
    /\ rpc = "mkdir"
    /\ StripIdle
    /\ LinkIdle
    /\ PopIdle
    /\ EpubIdle
    /\ NcxIdle

\* path(static_folder).mkdir_p() ... export of the helpers and the home page
MakeDir ==
    /\ rpc = "mkdir"
    /\ rpc' = "popularity"
    /\ UNCHANGED <<nbooks, bi, book, ci, last>>
    /\ RunOnly

\* Compute popularity, on a collection that is not empty
ComputePopularity ==
    /\ rpc = "popularity"
    /\ nbooks > 0
    /\ rpc' = "books"
    /\ UNCHANGED <<nbooks, bi, book, ci, last>>
    /\ RunOnly

\* popbooks[0] of an empty collection raises; nothing in export_all_books
\* handles it
PopularityRaises ==
    /\ rpc = "popularity"
    /\ nbooks = 0
    /\ rpc' = "aborted"
    /\ UNCHANGED <<nbooks, bi, book, ci, last>>
    /\ RunOnly

\* for book in books: ... export_book_to(book=book, ...)
NextBook ==
    /\ rpc = "books"
    /\ bi < nbooks
    /\ bi' = bi + 1
    /\ book' \in BookShapes
    /\ ci' = 0
    /\ rpc' = "main_html"
    /\ UNCHANGED <<nbooks, last>>
    /\ RunOnly

\* the books are exhausted: export_all_books returns
BooksEnd ==
    /\ rpc = "books"
    /\ bi >= nbooks
    /\ rpc' = "finished"
    /\ UNCHANGED <<nbooks, bi, book, ci, last>>
    /\ RunOnly

\* html = html_content_for(...); if html: try update_html_for_static except:
\* new_html = html; write new_html.  raises is whether the call raised.
MainHtml ==
    /\ rpc = "main_html"
    /\ IF book.html
       THEN \E raises \in BOOLEAN :
               last' = [file |-> "main",
                        update |-> IF raises THEN "raised" ELSE "ok",
                        wrote |-> IF raises THEN "original" ELSE "rewritten"]
       ELSE last' = NoFile
    /\ rpc' = "companions"
    /\ UNCHANGED <<nbooks, bi, book, ci>>
    /\ RunOnly

\* a companion .html/.htm file: read, update_html_for_static, write; the call
\* is in no try block, so an exception leaves export_book_to and the run
CompanionHtml ==
    /\ rpc = "companions"
    /\ ci < Len(book.companions)
    /\ book.companions[ci + 1] = "html"
    /\ \E raises \in BOOLEAN :
        IF raises
        THEN /\ last' = [file |-> "companion", update |-> "raised", wrote |-> "none"]
             /\ rpc' = "aborted"
             /\ ci' = ci
        ELSE /\ last' = [file |-> "companion", update |-> "ok", wrote |-> "rewritten"]
             /\ rpc' = rpc
             /\ ci' = ci + 1
    /\ UNCHANGED <<nbooks, bi, book>>
    /\ RunOnly

\* any other companion file: try handle_companion_file(fname) except
\* Exception: logged
CompanionOther ==
    /\ rpc = "companions"
    /\ ci < Len(book.companions)
    /\ book.companions[ci + 1] = "other"
    /\ ci' = ci + 1
    /\ UNCHANGED <<nbooks, bi, book, last, rpc>>
    /\ RunOnly

\* the companion files are exhausted
CompanionsEnd ==
    /\ rpc = "companions"
    /\ ci >= Len(book.companions)
    /\ rpc' = "formats"
    /\ UNCHANGED <<nbooks, bi, book, ci, last>>
    /\ RunOnly

\* for format in formats: try handle_companion_file(...) except Exception
OtherFormats ==
    /\ rpc = "formats"
    /\ rpc' = "cover_page"
    /\ UNCHANGED <<nbooks, bi, book, ci, last>>
    /\ RunOnly

\* the book presentation article is written; export_book_to returns
CoverPage ==
    /\ rpc = "cover_page"
    /\ rpc' = "books"
    /\ UNCHANGED <<nbooks, bi, book, ci, last>>
    /\ RunOnly

RunNext ==
    \/ MakeDir
    \/ ComputePopularity
    \/ PopularityRaises
    \/ NextBook
    \/ BooksEnd
    \/ MainHtml
    \/ CompanionHtml
    \/ CompanionOther
    \/ CompanionsEnd
    \/ OtherFormats
    \/ CoverPage

SpecRun == RunInit /\ [][RunNext]_vars

\* C6, as claimed: once the output directory is made the run is never
\* aborted, on an empty collection neither, and whenever
\* update_html_for_static raised on an HTML file the original HTML was
\* written for it.
C6_NoFailureAbortsRun ==
    /\ rpc # "aborted"
    /\ last.update = "raised" => last.wrote = "original"

(***************************************************************************)
(* Properties of the stripper, stated where the child loops are left       *)
(* (spc = "infobox"), before the infobox is put into the body.             *)
(***************************************************************************)
Ids(b) == {b[i].id : i \in 1..Len(b)}
TagsOf(b) == {i \in 1..Len(b) : b[i].tag}
TagsWith(marker, b) == {i \in TagsOf(b) : In(marker, b[i].text)}
Least(S) == CHOOSE i \in S : \A j \in S : i <= j

\* the patterns loop ran on the parsed body and stopped at pair pat
Stopped ==
    /\ spc = "infobox"
    /\ bodyFound
    /\ Cardinality(TagsOf(orig)) # 1
    /\ pat <= Len(patterns)
RanBoth ==
    /\ Stopped
    /\ In(start_of_text(pat), TextOf(orig))
    /\ In(end_of_text(pat), TextOf(orig))
RanStart ==
    /\ Stopped
    /\ In(start_of_text(pat), TextOf(orig))
    /\ ~In(end_of_text(pat), TextOf(orig))

\* C1, as claimed: when both markers of the pair occur in the body text, the
\* children that survive the scan are exactly those strictly between the
\* child containing the start marker and the first child after it containing
\* the end marker.  Stated for the bodies on which the claim names its nodes
\* without doubt: every child is an element, one child alone contains the
\* start marker, and a child after it contains the end marker.
C1_BothKeepsExactlyBetween ==
    (/\ RanBoth
     /\ TagsOf(orig) = 1..Len(orig)
     /\ Cardinality(TagsWith(start_of_text(pat), orig)) = 1
     /\ \E e \in TagsWith(end_of_text(pat), orig) :
            \A s \in TagsWith(start_of_text(pat), orig) : s < e)
    => LET s == Least(TagsWith(start_of_text(pat), orig))
           e == Least({j \in TagsWith(end_of_text(pat), orig) : j > s})
       IN  Ids(body) = {i \in 1..Len(orig) : s < i /\ i < e}

\* C10, as claimed: when only the start marker occurs in the body text, every
\* element child up to and including the one containing the start marker is
\* deleted and every child after it is kept.
C10_StartOnlyDeletesThrough ==
    (/\ RanStart
     /\ Cardinality(TagsWith(start_of_text(pat), orig)) = 1)
    => LET s == Least(TagsWith(start_of_text(pat), orig))
       IN  /\ \A i \in TagsOf(orig) : i <= s => i \notin Ids(body)
           /\ \A i \in 1..Len(orig) : i > s => i \in Ids(body)

RanEnd ==
    /\ Stopped
    /\ ~In(start_of_text(pat), TextOf(orig))
    /\ In(end_of_text(pat), TextOf(orig))

\* C11, as claimed: when only the end marker of the pair occurs in the body
\* text, every child before the first element containing the end marker is
\* kept, in its original order, and that element and every element child
\* after it are deleted.
C11_EndOnlyKeepsBefore ==
    (/\ RanEnd
     /\ TagsWith(end_of_text(pat), orig) # {})
    => LET e == Least(TagsWith(end_of_text(pat), orig))
       IN  /\ SubSeq(body, 1, e - 1) = SubSeq(orig, 1, e - 1)
           /\ \A i \in TagsOf(orig) : i >= e => i \notin Ids(body)

\* the pairs of the table of which at least one marker occurs in the text of b
Matching(b) ==
    LET text == TextOf(b)
    IN  {p \in 1..Len(patterns) :
            In(start_of_text(p), text) \/ In(end_of_text(p), text)}
\* the first of them in table order, Len(patterns) + 1 when there is none
FirstMatch(b) ==
    LET found == Matching(b)
    IN  IF found = {} THEN Len(patterns) + 1 ELSE Least(found)
\* the child loop the code enters for pair p on the text of b
ModeOf(p, b) ==
    IF In(start_of_text(p), TextOf(b))
    THEN (IF In(end_of_text(p), TextOf(b)) THEN "both" ELSE "start")
    ELSE "end"

\* C12: on a parsed body that is not wrapped in a single element the pairs
\* are tried in table order and only up to the first pair with a marker in
\* the body text; the child loop entered is the one of that pair and of its
\* markers' presence, the body changes in that loop only, and no later pair
\* is evaluated afterwards.  When no pair has a marker in the body text the
\* child sequence is left as parsed (the infobox apart, put in front of it
\* at the end when epub is false).
C12_FirstMatchingPairOnly ==
    (bodyFound /\ Cardinality(TagsOf(orig)) # 1)
    => LET first == FirstMatch(orig)
       IN  /\ spc \in {"find_body", "patterns"} => (pat <= first /\ body = orig)
           /\ spc \in {"both", "start", "end"} =>
                  (pat = first /\ pat <= Len(patterns) /\ spc = ModeOf(pat, orig))
           /\ spc \in {"infobox", "done"} => pat = first
           /\ (spc = "infobox" /\ first > Len(patterns)) => body = orig
           /\ (spc = "done" /\ first > Len(patterns)) =>
                  body = (IF epub THEN orig ELSE <<InfoBox>> \o orig)
           /\ spc # "raised"

\* the first pair was applied (start marker only) to a body in which a
\* later pair of the table has a marker too, and still has after the scan
C12_Witness ==
    /\ Stopped
    /\ pat = 1
    /\ body # orig
    /\ 12 \in Matching(orig)
    /\ 12 \in Matching(body)

\* no pair of the table has a marker in a body of several elements
C12_NoneWitness ==
    /\ spc = "infobox"
    /\ bodyFound
    /\ Cardinality(TagsOf(orig)) >= 2
    /\ Matching(orig) = {}

\* C8: a body with exactly one child that is not a string is never handed to
\* the patterns loop and keeps its child sequence through the stripping
\* step, whatever markers its text holds; only the infobox is put in front
\* of it afterwards, when epub is false.
C8_EncapsulatedUntouched ==
    (bodyFound /\ Cardinality(TagsOf(orig)) = 1)
    => \/ spc \in {"find_body", "infobox"} /\ body = orig
       \/ spc = "done" /\ body = (IF epub THEN orig ELSE <<InfoBox>> \o orig)

\* a wrapped body with strings around the element and both markers of the
\* first pair in its text has passed the stripping step
C8_Witness ==
    /\ spc = "infobox"
    /\ bodyFound
    /\ Cardinality(TagsOf(orig)) = 1
    /\ Len(orig) >= 3
    /\ In(start_of_text(1), TextOf(orig))
    /\ In(end_of_text(1), TextOf(orig))

(***************************************************************************)
(* Properties of the rewriting.  snaps[1] is the element as parsed,        *)
(* snaps[2] after one application, snaps[3] after two.                     *)
(***************************************************************************)
Blank(s) == \A i \in 1..Len(s) : s[i] = " "
\* the ways to read url as path '#' anchor with no '#' in the anchor
AnchorSplits(url) ==
    {k \in 1..Len(url) : url[k] = "#" /\ \A j \in (k + 1)..Len(url) : url[j] # "#"}
PathOf(url, k) == SubSeq(url, 1, k - 1)
AnchorOf(url, k) == SubSeq(url, k + 1, Len(url))

C7_RewriteIdempotent ==
    Len(snaps) >= 3 => snaps[3] = snaps[2]

\* C7, amended: a second application leaves every img src unchanged and
\* leaves an href unchanged when its path part is blank or contains '/';
\* an href with a non-blank '/'-free path part is prefixed once more.
C7_SecondRewrite ==
    Len(snaps) >= 3
    => IF snaps[2].name = "a" /\ ~Blank(UrlP(snaps[2].val)) /\ ~Has("/", UrlP(snaps[2].val))
       THEN snaps[3] = [snaps[2] EXCEPT !.val = IdPrefix(book_id) \o snaps[2].val]
       ELSE snaps[3] = snaps[2]

\* 'c' has become '42_c' and then '42_42_c'
C7_Witness ==
    /\ book_id = 42
    /\ Len(snaps) = 3
    /\ snaps[1] = [name |-> "a", has |-> TRUE, val |-> <<"c">>]
    /\ snaps[3].val = <<"42", "_", "42", "_", "c">>

(***************************************************************************)
(* Properties of the truncation of the .ncx entry.                         *)
(***************************************************************************)
\* C13, as claimed: when the label text of a navPoint holds the pattern,
\* the written navMap holds exactly the navPoints that precede the first
\* such navPoint, in their order: that navPoint and all its following
\* siblings are removed.
C13_NcxTruncatedAtLicense ==
    (/\ npc = "written"
     /\ \E i \in 1..Len(label) : label[i])
    => LET first == Least({i \in 1..Len(label) : label[i]})
       IN  navMap = [i \in 1..(first - 1) |-> i]

(***************************************************************************)
(* Properties of the popularity computation.                               *)
(***************************************************************************)
\* C14: on a non-empty descending collection the star counter stays within
\* 1..5 throughout the walk, stars_limits keeps its five entries with the
\* 1-star threshold (stars_limits[0] in the code) at 0 and the thresholds
\* non-decreasing with the star level, every derived popularity is in 1..5,
\* and when all download counts are equal every book is rated 5.
C14_PopularityInRange ==
    ppc \in {"walk", "rate", "done"}
    => /\ stars \in 1..NB_POPULARITY_STARS
       /\ DOMAIN stars_limits = 1..NB_POPULARITY_STARS
       /\ stars_limits[1] = 0
       /\ \A i \in 1..(NB_POPULARITY_STARS - 1) : stars_limits[i] <= stars_limits[i + 1]
       /\ \A i \in 1..Len(popularity) : popularity[i] \in 1..NB_POPULARITY_STARS
       /\ (\A i \in 1..Len(popbooks) : popbooks[i] = popbooks[1])
              => \A i \in 1..Len(popularity) : popularity[i] = NB_POPULARITY_STARS

\* seven books with five distinct counts: the counter has come down to 1,
\* all four thresholds are set and the books are rated from 5 down to 1
C14_Witness ==
    /\ ppc = "done"
    /\ popbooks = <<5, 5, 4, 3, 3, 2, 1>>
    /\ stars = 1
    /\ stars_limits = <<0, 2, 3, 4, 5>>
    /\ popularity = <<5, 5, 4, 3, 3, 2, 1>>

\* three books with one download count
C14_EqualWitness ==
    /\ ppc = "done"
    /\ popbooks = <<2, 2, 2>>
    /\ popularity = <<5, 5, 5>>

====
